---- MODULE Spec2Model ----
(***************************************************************************)
(* Session / account manager of the social app (state/session Provider).   *)
(* One React Provider per context (browser tab); the contexts share one    *)
(* persisted `session` record and are told of each other's writes through  *)
(* persisted.onUpdate.  A synchronous block of a handler (up to an await   *)
(* or to its end), the render it schedules and the persist effect of that  *)
(* render form one step.                                                   *)
(***************************************************************************)
EXTENDS Integers, Sequences, FiniteSets, TLC

\* ------------------------------------------------------------------ bounds
MaxDid == 2
MaxAgents == 2
MaxTok == 2
MaxPending == 2
MaxOps == 3

\* networkRetry(3, ...) in initSession
MaxRetries == 3
\* resolveName calls in a run of the root store
MaxCalls == 4
\* background-fetch tasks the scheduler delivers in a run
MaxTasks == 3
\* edits of one ImageModel in a run
MaxEdits == 3

Ctx == {1, 2}
Dids == 1..MaxDid
AgentIds == 1..MaxAgents
TaskIds == 1..MaxTasks
Service == "https://bsky.social"

\* -------------------------------------------------------------- data model
\* undefined / '' of the source is 0 for dids, handles, emails and tokens.
NoAccount ==
  [service |-> "", did |-> 0, handle |-> 0, email |-> 0,
   emailConfirmed |-> FALSE, refreshJwt |-> 0, accessJwt |-> 0]

NoSession ==
  [did |-> 0, handle |-> 0, email |-> 0,
   emailConfirmed |-> FALSE, refreshJwt |-> 0, accessJwt |-> 0]

\* The access and the refresh token of one token generation g.
AccessOf(g) == g
RefreshOf(g) == 10 + g

\* agent.session values the backend client can hold for did d: with token
\* generation g the backend reports handle g; only the later generations
\* come with an email address, and a confirmed one.
Sessions(d) ==
  { [did |-> d, handle |-> g, email |-> IF g > 1 THEN 1 ELSE 0,
     emailConfirmed |-> g > 1,
     refreshJwt |-> RefreshOf(g), accessJwt |-> AccessOf(g)] :
       g \in 1..MaxTok }

\* The one session the backend reports for did d when its answers are fixed.
FixedSession(d) ==
  [did |-> d, handle |-> 1, email |-> 0, emailConfirmed |-> FALSE,
   refreshJwt |-> RefreshOf(1), accessJwt |-> AccessOf(1)]

StoredAccount(d) ==
  [service |-> Service, did |-> d, handle |-> 1, email |-> 0,
   emailConfirmed |-> FALSE, refreshJwt |-> RefreshOf(1),
   accessJwt |-> AccessOf(1)]

\* Records persisted.get('session') may hold at construction: nothing, or
\* the accounts of an earlier run with or without a current one.
InitStores ==
  { [accounts |-> <<>>, currentAccount |-> NoAccount],
    [accounts |-> <<StoredAccount(1), StoredAccount(2)>>,
     currentAccount |-> NoAccount],
    [accounts |-> <<StoredAccount(1), StoredAccount(2)>>,
     currentAccount |-> StoredAccount(1)] }

FreeAgent ==
  [st |-> "free", op |-> "", via |-> "", did |-> 0, acct |-> NoAccount,
   sess |-> NoSession, tries |-> 0, cur0 |-> 0]

NoOut ==
  [ctx |-> 0, op |-> "init", via |-> "", did |-> 0, outcome |-> "",
   init |-> "", event |-> "", dropped |-> 0, loaded |-> 0, writes |-> 0,
   cur0 |-> 0, call0 |-> 0, tries |-> 0]

VARIABLES
  tabs,         \* the contexts that run a Provider
  state,        \* per context: React state of the Provider (SessionState)
  globalAgent,  \* per context: __globalAgent, 0 is PUBLIC_BSKY_AGENT
  agents,       \* per context: the BskyAgent instances and their calls
  persisted,    \* the persisted 'session' record shared by the contexts
  isDirty,      \* per context: isDirty.current once the effects have run
  pending,      \* per context: onUpdate notifications not yet handled
  activated,    \* per context: did of the last emitSessionLoaded
  budget,       \* calls, token events and outside writes the run may still make
  out,          \* what the last step did (its operation, outcome, emissions)
  rootStore,    \* RootStoreModel: the resolveName call and the lookups made
  bgTasks,      \* per taskId: its onBgFetch call and the finish calls made
  image         \* an ImageModel: attributes, compressed, manipulations pending

vars == <<tabs, state, globalAgent, agents, persisted, isDirty, pending,
          activated, budget, out, rootStore, bgTasks,
          image>>

\* The variables of the session Provider.
sessionVars == <<tabs, state, globalAgent, agents, persisted, isDirty,
                 pending, activated, budget, out>>

\* ------------------------------------------------------------ pure helpers
Range(seq) == {seq[i] : i \in 1..Len(seq)}
DidsOf(seq) == {seq[i].did : i \in 1..Len(seq)}
DidSeq(seq) == [i \in 1..Len(seq) |-> seq[i].did]
\* A filter that keeps every account.
FilterNothing(seq, d) == seq
Filter(seq, d) == SelectSeq(seq, LAMBDA a : a.did # d)
Min(S) == CHOOSE x \in S : \A y \in S : x <= y

\* JavaScript `x || y` on values whose falsy case is 0.
JsOr(x, y) == IF x # 0 THEN x ELSE y

\* ------------------------------------------------- createPersistSessionHandler
\* A handler for which only the event named "expired" means expiry.
persistSessionNamedExpiry(account, event, session) ==
  LET expired == event = "expired"
      refreshedAccount ==
        [service |-> account.service,
         did |-> JsOr(session.did, account.did),
         handle |-> JsOr(session.handle, account.handle),
         email |-> JsOr(session.email, account.email),
         emailConfirmed |-> session.emailConfirmed \/ account.emailConfirmed,
         refreshJwt |-> session.refreshJwt,
         accessJwt |-> session.accessJwt]
  IN [expired |-> expired, refreshedAccount |-> refreshedAccount,
      dropped |-> IF expired THEN 1 ELSE 0]

\* persistSession(event, session) of the handler created for `account`:
\* the expired flag, the reconciled account and whether session-dropped fires.
persistSession(account, event, session) ==
  LET expired == ~(event = "create" \/ event = "update")
      refreshedAccount ==
        [service |-> account.service,
         did |-> JsOr(session.did, account.did),
         handle |-> JsOr(session.handle, account.handle),
         email |-> JsOr(session.email, account.email),
         emailConfirmed |-> session.emailConfirmed \/ account.emailConfirmed,
         refreshJwt |-> session.refreshJwt,
         accessJwt |-> session.accessJwt]
  IN [expired |-> expired, refreshedAccount |-> refreshedAccount,
      dropped |-> IF expired THEN 1 ELSE 0]

\* ------------------------------------------------------- state updaters
\* upsertAccount putting the account last instead of first.
upsertAccountLast(s, account, expired) ==
  [s EXCEPT !.currentAccount = IF expired THEN NoAccount ELSE account,
            !.accounts = Filter(s.accounts, account.did) \o <<account>>]

\* upsertAccount unlisting the account whose session expired.
upsertAccountUnlistingExpired(s, account, expired) ==
  [s EXCEPT !.currentAccount = IF expired THEN NoAccount ELSE account,
            !.accounts = IF expired THEN Filter(s.accounts, account.did)
                         ELSE <<account>> \o Filter(s.accounts, account.did)]

\* upsertAccount ignoring its expired flag.
upsertAccountNotExpired(s, account, expired) ==
  [s EXCEPT !.currentAccount = account,
            !.accounts = <<account>> \o Filter(s.accounts, account.did)]

\* upsertAccount(account, expired) applied to SessionState s.
upsertAccount(s, account, expired) ==
  [s EXCEPT !.currentAccount = IF expired THEN NoAccount ELSE account,
            !.accounts = <<account>> \o Filter(s.accounts, account.did)]

\* clearCurrentAccount forgetting the tokens of the account it leaves.
clearCurrentAccountStripping(s) ==
  [s EXCEPT !.currentAccount = NoAccount,
            !.accounts =
              [i \in 1..Len(s.accounts) |->
                 IF s.accounts[i].did = s.currentAccount.did
                   THEN [s.accounts[i] EXCEPT !.refreshJwt = 0, !.accessJwt = 0]
                   ELSE s.accounts[i]]]

\* The updater of clearCurrentAccount.
clearCurrentAccountState(s) ==
  [s EXCEPT !.currentAccount = NoAccount]

\* logout clearing the access tokens and keeping the refresh tokens.
logoutStateAccessOnly(s) ==
  [s EXCEPT !.accounts =
     [i \in 1..Len(s.accounts) |-> [s.accounts[i] EXCEPT !.accessJwt = 0]]]

\* The second updater of logout: every account loses its tokens.
logoutState(s) ==
  [s EXCEPT !.accounts =
     [i \in 1..Len(s.accounts) |->
        [s.accounts[i] EXCEPT !.refreshJwt = 0, !.accessJwt = 0]]]

\* removeAccount signing out whatever account it removes.
removeAccountSigningOut(s, account) ==
  [s EXCEPT !.accounts = Filter(s.accounts, account.did),
            !.currentAccount = NoAccount]

\* The updater of removeAccount.
removeAccountState(s, account) ==
  [s EXCEPT !.accounts = Filter(s.accounts, account.did)]

\* updateCurrentAccount patching the handle of currentAccount and leaving
\* accounts as they are.
updateCurrentAccountUnlisted(s, partial) ==
  IF s.currentAccount = NoAccount THEN s
  ELSE [s EXCEPT !.currentAccount.handle =
                    JsOr(partial.handle, s.currentAccount.handle)]

\* The updater of updateCurrentAccount; partial.emailConfirmed is a set,
\* empty when the field is undefined.
updateCurrentAccountState(s, partial) ==
  LET currentAccount == s.currentAccount
      updatedAccount ==
        [currentAccount EXCEPT
           !.handle = JsOr(partial.handle, currentAccount.handle),
           !.email = JsOr(partial.email, currentAccount.email),
           !.emailConfirmed =
              IF partial.emailConfirmed # {}
                THEN TRUE \in partial.emailConfirmed
                ELSE currentAccount.emailConfirmed]
  IN IF currentAccount = NoAccount THEN s
     ELSE [s EXCEPT !.currentAccount = updatedAccount,
                    !.accounts = <<updatedAccount>> \o
                                 Filter(s.accounts, currentAccount.did)]

\* The account record createAccount builds from agent.session.
createAccountRecord(sess) ==
  [service |-> Service, did |-> sess.did, handle |-> sess.handle,
   email |-> sess.email, emailConfirmed |-> FALSE,
   refreshJwt |-> sess.refreshJwt, accessJwt |-> sess.accessJwt]

\* The account record login builds from agent.session.
loginAccountRecord(sess) ==
  [service |-> Service, did |-> sess.did, handle |-> sess.handle,
   email |-> sess.email, emailConfirmed |-> sess.emailConfirmed \/ FALSE,
   refreshJwt |-> sess.refreshJwt, accessJwt |-> sess.accessJwt]

\* freshAccount keeping the tokens initSession was called with.
freshAccountStoredTokens(account, sess) ==
  [service |-> account.service, did |-> sess.did, handle |-> sess.handle,
   email |-> sess.email, emailConfirmed |-> sess.emailConfirmed \/ FALSE,
   refreshJwt |-> account.refreshJwt, accessJwt |-> account.accessJwt]

\* freshAccount of initSession(account), built from agent.session.
freshAccountRecord(account, sess) ==
  [service |-> account.service, did |-> sess.did, handle |-> sess.handle,
   email |-> sess.email, emailConfirmed |-> sess.emailConfirmed \/ FALSE,
   refreshJwt |-> sess.refreshJwt, accessJwt |-> sess.accessJwt]

\* The record the persist effect writes when the dirty flag is set.
persistEffect(dirty, s, store) ==
  IF dirty
    THEN [accounts |-> s.accounts, currentAccount |-> s.currentAccount]
    ELSE store

\* Other contexts are notified of a write (persisted.onUpdate).
notify(c, dirty, pend) ==
  [x \in Ctx |->
     IF dirty /\ x # c /\ x \in tabs /\ pend[x] < MaxPending
       THEN pend[x] + 1 ELSE pend[x]]

\* ------------------------------------------------------------ step frame
\* Every call of the API, every token event and every outside write is
\* counted against the budget of the run.
UserOk == budget > 0

\* Runs of several contexts model no token events, so there an agent that is
\* established and no longer the active client never acts again: it is
\* garbage, and its slot is freed at once.
Collected(ags, ga) ==
  IF Cardinality(tabs) = 1 THEN ags
  ELSE [a \in AgentIds |->
          IF ags[a].st = "live" /\ a # ga THEN FreeAgent ELSE ags[a]]

\* What is kept of a step's record: runs of several contexts keep the
\* context, the operation and its outcome.
Logged(o) ==
  IF Cardinality(tabs) = 1 THEN o
  ELSE [NoOut EXCEPT !.ctx = o.ctx, !.op = o.op, !.via = o.via,
                     !.outcome = o.outcome]

\* Whether the block recorded as o made setState produce a new state
\* object, so that React renders and the effects on [state] run.  Every
\* updater builds a new object but the one of updateCurrentAccount without
\* a current account, which returns s; the blocks that call plain setState
\* are the start and the end of selectAccount and the end of resumeSession.
Renders(dirty, o, cur) ==
  IF dirty
    THEN ~(o.op = "updateCurrentAccount" /\ cur = NoAccount)
    ELSE /\ o.op = "initSession"
         /\ \/ o.via = "select" /\ o.outcome # "retry"
            \/ o.via = "resume" /\ o.outcome \notin {"started", "retry"}

\* The end of a synchronous block in context c: setStateAndPersist has set
\* the dirty flag if `dirty`, the render commits state s, the persist effect
\* runs if there was a render, the other contexts are notified of a write.
Commit(c, s, dirty, ga, ags, pend, user, o) ==
  LET flag == isDirty[c] \/ dirty
      rendered == Renders(dirty, o, state[c].currentAccount)
      write == flag /\ rendered
  IN
  /\ state' = [state EXCEPT ![c] = s]
  /\ globalAgent' = [globalAgent EXCEPT ![c] = ga]
  /\ agents' = [agents EXCEPT ![c] = Collected(ags, ga)]
  /\ persisted' = persistEffect(write, s, persisted)
  /\ isDirty' = [isDirty EXCEPT ![c] = flag /\ ~rendered]
  /\ pending' = notify(c, write, pend)
  /\ activated' = IF o.loaded = 1 THEN [activated EXCEPT ![c] = o.did]
                  ELSE activated
  /\ budget' = IF user THEN budget - 1 ELSE budget
  /\ out' = Logged([o EXCEPT !.ctx = c, !.writes = IF write THEN 1 ELSE 0,
                             !.cur0 = state[c].currentAccount.did])
  /\ UNCHANGED <<tabs, rootStore, bgTasks, image>>

\* The agent slot a new BskyAgent takes: a free one, else one whose agent
\* is no longer referenced (established, and not the active client).
Reusable(c) ==
  {a \in AgentIds : agents[c][a].st = "free"} \cup
  {a \in AgentIds : agents[c][a].st = "live" /\ globalAgent[c] # a}
HasSlot(c) == Reusable(c) # {}
NewSlot(c) ==
  LET free == {a \in AgentIds : agents[c][a].st = "free"}
  IN IF free # {} THEN Min(free) ELSE Min(Reusable(c))

NewAgent(c, op, via, did, acct) ==
  [st |-> "calling", op |-> op, via |-> via, did |-> did, acct |-> acct,
   sess |-> NoSession, tries |-> 0, cur0 |-> state[c].currentAccount.did]

\* What a backend call can answer for did d.
CallResults(d) ==
  { [kind |-> "throw", sess |-> NoSession, event |-> ""],
    [kind |-> "nosession", sess |-> NoSession, event |-> ""] } \cup
  { [kind |-> "ok", sess |-> s, event |-> ""] : s \in Sessions(d) }

ResumeResults(d) ==
  { [kind |-> "neterr", sess |-> NoSession, event |-> ""],
    [kind |-> "nosession", sess |-> NoSession, event |-> ""],
    [kind |-> "autherr", sess |-> NoSession, event |-> "expired"],
    [kind |-> "autherr", sess |-> NoSession, event |-> "create-failed"] } \cup
  { [kind |-> "ok", sess |-> s, event |-> "create"] : s \in Sessions(d) }

Tokens(x) == <<x.accessJwt, x.refreshJwt>>

\* ----------------------------------------------------------- createAccount
\* createAccount up to `await agent.createAccount(...)`.
CreateAccountCall(c, d) ==
  /\ UserOk /\ HasSlot(c)
  /\ d \notin DidsOf(state[c].accounts)
  /\ Commit(c, state[c], FALSE, globalAgent[c],
            [agents[c] EXCEPT ![NewSlot(c)] =
               NewAgent(c, "createAccount", "api", d, NoAccount)],
            pending, TRUE,
            [NoOut EXCEPT !.op = "createAccount", !.outcome = "started",
                          !.did = d])

\* A failed establishment that emits session-loaded all the same.
RejectCallLoaded(c, a, op) ==
  Commit(c, state[c], FALSE, globalAgent[c],
         [agents[c] EXCEPT ![a] = FreeAgent], pending, FALSE,
         [NoOut EXCEPT !.op = op, !.via = "api", !.outcome = "rejected",
                       !.did = agents[c][a].did,
                       !.call0 = agents[c][a].cur0, !.loaded = 1])

\* A failed establishment that signs the current account out.
RejectCallSigningOut(c, a, op) ==
  Commit(c, clearCurrentAccountState(state[c]), TRUE, 0,
         [agents[c] EXCEPT ![a] = FreeAgent], pending, FALSE,
         [NoOut EXCEPT !.op = op, !.via = "api", !.outcome = "rejected",
                       !.did = agents[c][a].did,
                       !.call0 = agents[c][a].cur0])

\* What follows an establishment that failed: the call rejects, the agent
\* is dropped.
RejectCall(c, a, op) ==
  Commit(c, state[c], FALSE, globalAgent[c],
         [agents[c] EXCEPT ![a] = FreeAgent], pending, FALSE,
         [NoOut EXCEPT !.op = op, !.via = "api", !.outcome = "rejected",
                       !.did = agents[c][a].did,
                       !.call0 = agents[c][a].cur0])

\* createAccount from the return of agent.createAccount to its end.
CreateAccountReturn(c, a, r) ==
  /\ agents[c][a].st = "calling" /\ agents[c][a].op = "createAccount"
  /\ IF r.kind # "ok"
       THEN RejectCall(c, a, "createAccount")
       ELSE LET account == createAccountRecord(r.sess) IN
            Commit(c, upsertAccount(state[c], account, FALSE), TRUE, a,
                   [agents[c] EXCEPT ![a].st = "live", ![a].sess = r.sess,
                                     ![a].acct = account],
                   pending, FALSE,
                   [NoOut EXCEPT !.op = "createAccount", !.via = "api",
                                 !.outcome = "resolved", !.did = account.did,
                                 !.loaded = 1])

\* ------------------------------------------------------------------- login
\* login installing its agent before the backend has answered.
LoginCallEager(c, d) ==
  /\ UserOk /\ HasSlot(c)
  /\ Commit(c, state[c], FALSE, NewSlot(c),
            [agents[c] EXCEPT ![NewSlot(c)] =
               NewAgent(c, "login", "api", d, NoAccount)],
            pending, TRUE,
            [NoOut EXCEPT !.op = "login", !.outcome = "started", !.did = d])

\* login up to `await agent.login(...)`.
LoginCall(c, d) ==
  /\ UserOk /\ HasSlot(c)
  /\ Commit(c, state[c], FALSE, globalAgent[c],
            [agents[c] EXCEPT ![NewSlot(c)] =
               NewAgent(c, "login", "api", d, NoAccount)],
            pending, TRUE,
            [NoOut EXCEPT !.op = "login", !.outcome = "started", !.did = d])

LoginReturn(c, a, r) ==
  /\ agents[c][a].st = "calling" /\ agents[c][a].op = "login"
  /\ IF r.kind # "ok"
       THEN RejectCall(c, a, "login")
       ELSE LET account == loginAccountRecord(r.sess) IN
            Commit(c, upsertAccount(state[c], account, FALSE), TRUE, a,
                   [agents[c] EXCEPT ![a].st = "live", ![a].sess = r.sess,
                                     ![a].acct = account],
                   pending, FALSE,
                   [NoOut EXCEPT !.op = "login", !.via = "api",
                                 !.outcome = "resolved", !.did = account.did,
                                 !.loaded = 1])

\* ------------------------------------------------- clearCurrentAccount, logout
ClearCurrentAccount(c) ==
  /\ UserOk
  /\ Commit(c, clearCurrentAccountState(state[c]), TRUE, 0, agents[c],
            pending, TRUE,
            [NoOut EXCEPT !.op = "clearCurrentAccount",
                          !.outcome = "resolved"])

\* logout with the persist effect running between its two updates and not
\* after them: the store gets the state that still has the tokens.
LogoutFlushedBetween(c) ==
  /\ UserOk
  /\ state' = [state EXCEPT
                 ![c] = logoutState(clearCurrentAccountState(state[c]))]
  /\ globalAgent' = [globalAgent EXCEPT ![c] = 0]
  /\ persisted' = persistEffect(TRUE, clearCurrentAccountState(state[c]),
                                persisted)
  /\ isDirty' = [isDirty EXCEPT ![c] = TRUE]
  /\ pending' = notify(c, TRUE, pending)
  /\ budget' = budget - 1
  /\ out' = Logged([NoOut EXCEPT !.ctx = c, !.op = "logout",
                                 !.outcome = "resolved", !.writes = 1,
                                 !.cur0 = state[c].currentAccount.did])
  /\ UNCHANGED <<tabs, agents, activated, rootStore, bgTasks, image>>

Logout(c) ==
  /\ UserOk
  /\ Commit(c, logoutState(clearCurrentAccountState(state[c])), TRUE, 0,
            agents[c], pending, TRUE,
            [NoOut EXCEPT !.op = "logout", !.outcome = "resolved"])

\* ------------------------------------------ removeAccount, updateCurrentAccount
\* removeAccount through plain setState: the dirty flag is not set.
RemoveAccountUnsaved(c, account) ==
  /\ UserOk
  /\ Commit(c, removeAccountState(state[c], account), FALSE, globalAgent[c],
            agents[c], pending, TRUE,
            [NoOut EXCEPT !.op = "removeAccount", !.outcome = "resolved",
                          !.did = account.did])

RemoveAccount(c, account) ==
  /\ UserOk
  /\ Commit(c, removeAccountState(state[c], account), TRUE, globalAgent[c],
            agents[c], pending, TRUE,
            [NoOut EXCEPT !.op = "removeAccount", !.outcome = "resolved",
                          !.did = account.did])

UpdateCurrentAccount(c, partial) ==
  /\ UserOk
  /\ Commit(c, updateCurrentAccountState(state[c], partial), TRUE,
            globalAgent[c], agents[c], pending, TRUE,
            [NoOut EXCEPT !.op = "updateCurrentAccount",
                          !.outcome = "resolved"])

\* The patches a caller passes: a new handle, or a new and confirmed email.
Partials ==
  { [handle |-> 2, email |-> 0, emailConfirmed |-> {}],
    [handle |-> 0, email |-> 1, emailConfirmed |-> {TRUE}] }

\* ------------------------------------------------------------- initSession
\* A retry helper that allows one attempt more.
networkRetryOnceMore(tries, kind) ==
  IF kind = "neterr" /\ tries + 1 < MaxRetries + 1 THEN "retry"
  ELSE IF kind = "ok" \/ kind = "nosession" THEN "return"
  ELSE "throw"

\* networkRetry(3, fn) after an attempt of fn ended as `kind`, `tries`
\* attempts having been made before it: only a network error is retried,
\* and only while attempts are left.
networkRetry(tries, kind) ==
  IF kind = "neterr" /\ tries + 1 < MaxRetries THEN "retry"
  ELSE IF kind = "ok" \/ kind = "nosession" THEN "return"
  ELSE "throw"

\* resumeSession without its finally block.
resumeSessionNoFinally(s) == s

\* selectAccount never taking its flag down.
selectAccountNotSettled(s) == s

\* The continuations of the callers of initSession.
selectAccountSettled(s) == [s EXCEPT !.isSwitchingAccounts = FALSE]
resumeSessionFinally(s) == [s EXCEPT !.isInitialLoad = FALSE]
CallerSettled(via, s) ==
  IF via = "select" THEN selectAccountSettled(s)
  ELSE IF via = "resume" THEN resumeSessionFinally(s)
  ELSE s

\* Every caller passing the failure of initSession on.
CallerOutcomeRethrown(via, inner) == inner

\* resumeSession swallows the failure of initSession, the others rethrow.
CallerOutcome(via, inner) ==
  IF via = "resume" THEN "resolved" ELSE inner

\* initSession up to `await networkRetry(...)`: the agent is constructed
\* with the persistSession handler of `account`.
InitSessionCall(c, account, via, user) ==
  /\ HasSlot(c)
  /\ account # NoAccount
  /\ Commit(c,
            IF via = "select"
              THEN [state[c] EXCEPT !.isSwitchingAccounts = TRUE]
              ELSE state[c],
            FALSE, globalAgent[c],
            [agents[c] EXCEPT ![NewSlot(c)] =
               NewAgent(c, "initSession", via, account.did, account)],
            IF via = "sync"
              THEN [pending EXCEPT ![c] = pending[c] - 1] ELSE pending,
            user,
            [NoOut EXCEPT !.op = "initSession", !.via = via,
                          !.outcome = "started", !.did = account.did])

\* The accounts a caller can pass: those listed.
KnownAccounts(c) == Range(state[c].accounts)

InitSession(c, account) ==
  UserOk /\ InitSessionCall(c, account, "api", TRUE)

SelectAccount(c, account) ==
  UserOk /\ InitSessionCall(c, account, "select", TRUE)

\* resumeSession(account) is the startup path: it is called with the
\* persisted current account while the initial load is not over.
ResumeSession(c, account) ==
  /\ UserOk /\ state[c].isInitialLoad
  /\ InitSessionCall(c, account, "resume", TRUE)

\* resumeSession(undefined): only the finally block runs.
ResumeSessionNone(c) ==
  /\ UserOk /\ state[c].isInitialLoad
  /\ Commit(c, resumeSessionFinally(state[c]), FALSE, globalAgent[c],
            agents[c], pending, TRUE,
            [NoOut EXCEPT !.op = "initSession", !.via = "resume",
                          !.outcome = "resolved", !.init = "none"])

\* One attempt of agent.resumeSession answers r, and whatever of initSession
\* and of its caller follows in the same turn.
InitSessionAttempt(c, a, r) ==
  LET ag == agents[c][a]
      h == persistSession(ag.acct, r.event, r.sess)
      fired == r.event # ""
      s1 == IF fired
              THEN upsertAccount(state[c], h.refreshedAccount, h.expired)
              ELSE state[c]
      next == networkRetry(ag.tries, r.kind)
      freshAccount == freshAccountRecord(ag.acct, r.sess)
      o == [NoOut EXCEPT !.op = "initSession", !.via = ag.via, !.did = ag.did,
                         !.event = r.event, !.call0 = ag.cur0,
                         !.dropped = IF fired THEN h.dropped ELSE 0]
  IN
  /\ ag.st = "calling" /\ ag.op = "initSession"
  /\ r.kind = "ok" => ag.acct.refreshJwt # 0
  /\ IF next = "retry"
       THEN Commit(c, s1, fired, globalAgent[c],
                   [agents[c] EXCEPT ![a].tries = ag.tries + 1],
                   pending, FALSE, [o EXCEPT !.outcome = "retry"])
     ELSE IF next = "throw" \/ r.kind = "nosession"
       THEN Commit(c, CallerSettled(ag.via, s1), fired, globalAgent[c],
                   [agents[c] EXCEPT ![a] = FreeAgent],
                   pending, FALSE,
                   [o EXCEPT !.init = "rejected",
                             !.tries = IF r.kind = "neterr"
                                         THEN ag.tries + 1 ELSE 0,
                             !.outcome = CallerOutcome(ag.via, "rejected")])
     ELSE Commit(c, CallerSettled(ag.via, upsertAccount(s1, freshAccount, FALSE)),
                 TRUE, a,
                 [agents[c] EXCEPT ![a].st = "live", ![a].sess = r.sess,
                                   ![a].tries = ag.tries + 1],
                 pending, FALSE,
                 [o EXCEPT !.init = "resolved", !.outcome = "resolved",
                           !.loaded = 1])

\* --------------------------------------------- token events of the client
HasHandler(c, a) ==
  /\ agents[c][a].acct # NoAccount
  /\ \/ agents[c][a].st = "live" /\ agents[c][a].sess # NoSession
     \/ agents[c][a].st = "calling" /\ agents[c][a].op = "initSession"

\* The handler runs for an event (ev, sess) of agent a.
HandlerEvent(c, a, ev, sess) ==
  LET h == persistSession(agents[c][a].acct, ev, sess) IN
  Commit(c, upsertAccount(state[c], h.refreshedAccount, h.expired), TRUE,
         globalAgent[c], [agents[c] EXCEPT ![a].sess = sess], pending, TRUE,
         [NoOut EXCEPT !.op = "persistSession", !.event = ev,
                       !.did = h.refreshedAccount.did, !.via = agents[c][a].st,
                       !.outcome = IF globalAgent[c] = a THEN "active"
                                   ELSE "stale",
                       !.dropped = h.dropped])

\* The client refreshed its tokens.
AgentUpdate(c, a, sess) ==
  /\ UserOk /\ HasHandler(c, a)
  /\ HandlerEvent(c, a, "update", sess)

\* The client's refresh token was refused: the session is gone.
AgentExpired(c, a) ==
  /\ UserOk /\ HasHandler(c, a) /\ agents[c][a].st = "live"
  /\ HandlerEvent(c, a, "expired", NoSession)

\* ------------------------------------------------------ persisted.onUpdate
\* The listener doing nothing about a current account that differs.
OnUpdateDeaf(c) ==
  /\ pending[c] > 0
  /\ Commit(c, state[c], FALSE, globalAgent[c], agents[c],
            [pending EXCEPT ![c] = pending[c] - 1], FALSE,
            [NoOut EXCEPT !.op = "onUpdate", !.outcome = "none"])

\* The listener starting initSession whenever the store has a current
\* account, the same as in memory or not.
OnUpdateAlways(c) ==
  /\ pending[c] > 0
  /\ IF persisted.currentAccount # NoAccount
       THEN InitSessionCall(c, persisted.currentAccount, "sync", FALSE)
       ELSE Commit(c, state[c], FALSE, globalAgent[c], agents[c],
                   [pending EXCEPT ![c] = pending[c] - 1], FALSE,
                   [NoOut EXCEPT !.op = "onUpdate", !.outcome = "none"])

\* The listener never clearing the current account.
OnUpdateNoClear(c) ==
  /\ pending[c] > 0
  /\ IF /\ persisted.currentAccount # NoAccount
        /\ persisted.currentAccount.did # state[c].currentAccount.did
       THEN InitSessionCall(c, persisted.currentAccount, "sync", FALSE)
       ELSE Commit(c, state[c], FALSE, globalAgent[c], agents[c],
                   [pending EXCEPT ![c] = pending[c] - 1], FALSE,
                   [NoOut EXCEPT !.op = "onUpdate", !.outcome = "none"])

\* The listener of persisted.onUpdate runs for one notification.
OnUpdate(c) ==
  LET session == persisted IN
  /\ pending[c] > 0
  /\ IF session.currentAccount # NoAccount
       THEN IF session.currentAccount.did # state[c].currentAccount.did
              THEN InitSessionCall(c, session.currentAccount, "sync", FALSE)
              ELSE Commit(c, state[c], FALSE, globalAgent[c], agents[c],
                          [pending EXCEPT ![c] = pending[c] - 1], FALSE,
                          [NoOut EXCEPT !.op = "onUpdate", !.outcome = "same"])
     ELSE IF state[c].currentAccount # NoAccount
       THEN Commit(c, clearCurrentAccountState(state[c]), TRUE, 0, agents[c],
                   [pending EXCEPT ![c] = pending[c] - 1], FALSE,
                   [NoOut EXCEPT !.op = "onUpdate", !.outcome = "cleared"])
     ELSE Commit(c, state[c], FALSE, globalAgent[c], agents[c],
                 [pending EXCEPT ![c] = pending[c] - 1], FALSE,
                 [NoOut EXCEPT !.op = "onUpdate", !.outcome = "none"])

\* ------------------------------------------------ RootStoreModel.resolveName
\* Strings are sequences of characters.
DidPrefix == <<"d", "i", "d", ":">>
Did1 == <<"d", "i", "d", ":", "1">>
Did2 == <<"d", "i", "d", ":", "2">>

\* What callers pass: the empty string, dids, a bare prefix, handles.
Names ==
  {<<>>, Did1, Did2, DidPrefix, <<"d", "i", "d">>, <<"a">>,
   <<"D", "I", "D", ":", "1">>}

\* What com.atproto.handle.resolve answers: a did, or it throws.
LookupResults ==
  { [ok |-> TRUE, did |-> Did1], [ok |-> TRUE, did |-> Did2],
    [ok |-> FALSE, did |-> <<>>] }

IdleStore ==
  [st |-> "idle", didOrHandle |-> <<>>, result |-> <<>>, answer |-> <<>>,
   lookups |-> 0, calls |-> 0]

\* A prefix test that looks at the first three characters only.
startsWithThree(s, prefix) ==
  Len(s) >= 3 /\ SubSeq(s, 1, 3) = SubSeq(prefix, 1, 3)

\* String.prototype.startsWith
startsWith(s, prefix) ==
  Len(s) >= Len(prefix) /\ SubSeq(s, 1, Len(prefix)) = prefix

\* resolveName(didOrHandle) up to its return, its throw or its await.
ResolveNameCall(didOrHandle) ==
  /\ rootStore.st # "awaiting" /\ rootStore.calls < MaxCalls
  /\ rootStore' =
       IF didOrHandle = <<>>
         THEN [rootStore EXCEPT !.st = "threw", !.didOrHandle = didOrHandle,
                                !.result = <<>>, !.answer = <<>>,
                                !.calls = rootStore.calls + 1]
       ELSE IF startsWith(didOrHandle, DidPrefix)
         THEN [rootStore EXCEPT !.st = "returned",
                                !.didOrHandle = didOrHandle,
                                !.result = didOrHandle, !.answer = <<>>,
                                !.calls = rootStore.calls + 1]
       ELSE [rootStore EXCEPT !.st = "awaiting", !.didOrHandle = didOrHandle,
                              !.result = <<>>, !.answer = <<>>,
                              !.lookups = rootStore.lookups + 1,
                              !.calls = rootStore.calls + 1]
  /\ UNCHANGED <<sessionVars, bgTasks, image>>

\* The lookup answers: resolveName returns res.data.did, or the error of
\* the lookup propagates.
ResolveNameReturn(res) ==
  /\ rootStore.st = "awaiting"
  /\ rootStore' =
       IF res.ok
         THEN [rootStore EXCEPT !.st = "returned", !.result = res.did,
                                !.answer = res.did]
         ELSE [rootStore EXCEPT !.st = "threw"]
  /\ UNCHANGED <<sessionVars, bgTasks, image>>

\* ------------------------------------------- RootStoreModel background fetch
\* A task of the scheduler: st is "idle" before onBgFetch(taskId) is called,
\* "fetching" while onBgFetch awaits me.bgFetchNotifications(), "returned"
\* once onBgFetch has resolved and "threw" once it has rejected; finished
\* counts the BgScheduler.finish(taskId) calls, timedOut tells that
\* onBgFetchTimeout(taskId) was called.
NoTask == [st |-> "idle", finished |-> 0, timedOut |-> FALSE]

\* BgScheduler.finish(taskId), as the scheduler sees it.
finish(tasks, taskId) ==
  [tasks EXCEPT ![taskId].finished = tasks[taskId].finished + 1]

\* The scheduler calls onBgFetch(taskId): with a session the call awaits
\* the notification fetch, without one it finishes the task at once.
OnBgFetch(taskId, hasSession) ==
  /\ bgTasks[taskId].st = "idle"
  /\ bgTasks' =
       IF hasSession
         THEN [bgTasks EXCEPT ![taskId].st = "fetching"]
       ELSE [finish(bgTasks, taskId) EXCEPT ![taskId].st = "returned"]
  /\ UNCHANGED <<sessionVars, rootStore, image>>

\* me.bgFetchNotifications() settles: onBgFetch goes on to finish the task
\* when it resolved, and rejects with its error when it rejected.
BgFetchNotificationsSettles(taskId, ok) ==
  /\ bgTasks[taskId].st = "fetching"
  /\ bgTasks' =
       IF ok
         THEN [finish(bgTasks, taskId) EXCEPT ![taskId].st = "returned"]
       ELSE [bgTasks EXCEPT ![taskId].st = "threw"]
  /\ UNCHANGED <<sessionVars, rootStore, image>>

\* The scheduler calls onBgFetchTimeout(taskId), once, for a task it has
\* delivered and that nobody has finished yet.
OnBgFetchTimeout(taskId) ==
  /\ bgTasks[taskId].st # "idle"
  /\ bgTasks[taskId].finished = 0 /\ ~bgTasks[taskId].timedOut
  /\ bgTasks' = [finish(bgTasks, taskId) EXCEPT ![taskId].timedOut = TRUE]
  /\ UNCHANGED <<sessionVars, rootStore, image>>

\* ------------------------------------------------- ImageModel (web edits)
\* The degrees setRotate is called with.
Degrees == {0, 90, 180, 270}

\* What a picture looks like after flips and quarter turns of the file at
\* this.path: mirrored left-right or not, then turned by turns * 90 degrees.
\* defined is FALSE for undefined.
Untouched == [defined |-> TRUE, mirror |-> FALSE, turns |-> 0]
Undefined == [defined |-> FALSE, mirror |-> FALSE, turns |-> 0]

\* The ImageModel after its constructor; pending holds, for every manipulate
\* call awaiting ImageManipulator.manipulateAsync, the modifiers it passed.
NewImage ==
  [attributes |-> [flipHorizontal |-> FALSE, flipVertical |-> FALSE,
                   rotate |-> 0],
   compressed |-> Undefined,
   pending |-> <<>>,
   edits |-> 0]

\* The modifiers manipulate({}) builds from this.attributes before it awaits.
\* The resize that follows them is the same for every call without crop and
\* aspectRatio, width and height being fixed by the constructor.
modifiers(attributes) ==
  (IF attributes.flipHorizontal
     THEN <<[flip |-> "Horizontal", rotate |-> 0]>> ELSE <<>>)
  \o (IF attributes.flipVertical
        THEN <<[flip |-> "Vertical", rotate |-> 0]>> ELSE <<>>)
  \o <<[flip |-> "", rotate |-> attributes.rotate]>>

\* One modifier applied to a picture: a horizontal flip mirrors it and turns
\* it back by its turns, a vertical flip is that followed by a half turn, a
\* rotation adds its quarter turns.
Modify(pic, m) ==
  IF m.flip = "Horizontal"
    THEN [pic EXCEPT !.mirror = ~pic.mirror, !.turns = (4 - pic.turns) % 4]
  ELSE IF m.flip = "Vertical"
    THEN [pic EXCEPT !.mirror = ~pic.mirror, !.turns = (6 - pic.turns) % 4]
  ELSE [pic EXCEPT !.turns = (pic.turns + m.rotate \div 90) % 4]

\* ImageManipulator.manipulateAsync(this.path, actions, ...): the actions
\* applied in their order to the picture of the file.
RECURSIVE ManipulateFrom(_, _)
ManipulateFrom(pic, actions) ==
  IF actions = <<>> THEN pic
  ELSE ManipulateFrom(Modify(pic, Head(actions)), Tail(actions))

manipulateAsync(actions) == ManipulateFrom(Untouched, actions)

\* manipulate({}) up to its await: the modifiers are taken from the
\* attributes as they are now and the manipulation is started.
manipulate(img) ==
  [img EXCEPT !.pending = Append(img.pending, modifiers(img.attributes)),
              !.edits = img.edits + 1]

SetRotate(degrees) ==
  /\ image.edits < MaxEdits
  /\ image' = manipulate([image EXCEPT !.attributes.rotate = degrees])
  /\ UNCHANGED <<sessionVars, rootStore, bgTasks>>

FlipVertical ==
  /\ image.edits < MaxEdits
  /\ image' = manipulate([image EXCEPT !.attributes.flipVertical =
                                        ~image.attributes.flipVertical])
  /\ UNCHANGED <<sessionVars, rootStore, bgTasks>>

FlipHorizontal ==
  /\ image.edits < MaxEdits
  /\ image' = manipulate([image EXCEPT !.attributes.flipHorizontal =
                                        ~image.attributes.flipHorizontal])
  /\ UNCHANGED <<sessionVars, rootStore, bgTasks>>

ResetCompressed ==
  /\ image.edits < MaxEdits
  /\ image' = manipulate(image)
  /\ UNCHANGED <<sessionVars, rootStore, bgTasks>>

\* The manipulation of the i-th pending manipulate call resolves, and the
\* call stores its result as this.compressed.
ManipulateReturns(i) ==
  /\ i \in 1..Len(image.pending)
  /\ image' =
       [image EXCEPT
          !.compressed = manipulateAsync(image.pending[i]),
          !.pending = SubSeq(image.pending, 1, i - 1)
                      \o SubSeq(image.pending, i + 1, Len(image.pending))]
  /\ UNCHANGED <<sessionVars, rootStore, bgTasks>>

\* --------------------------------------------------------- specifications
\* The view of context 1, the context of the single-context runs.
accounts == state[1].accounts
currentAccount == state[1].currentAccount
isInitialLoad == state[1].isInitialLoad
isSwitchingAccounts == state[1].isSwitchingAccounts
getAgent == globalAgent[1]
InFlight == {a \in AgentIds : agents[1][a].st = "calling"}
Entry(d) == CHOOSE x \in Range(accounts) : x.did = d

InitState(roster) ==
  [isInitialLoad |-> TRUE, isSwitchingAccounts |-> FALSE,
   accounts |-> roster, currentAccount |-> NoAccount]

InitWith(t) ==
  /\ tabs = t
  /\ persisted \in InitStores
  /\ state = [c \in Ctx |->
                InitState(IF c \in t THEN persisted.accounts ELSE <<>>)]
  /\ globalAgent = [c \in Ctx |-> 0]
  /\ isDirty = [c \in Ctx |-> FALSE]
  /\ agents = [c \in Ctx |-> [a \in AgentIds |-> FreeAgent]]
  /\ pending = [c \in Ctx |-> 0]
  /\ activated = [c \in Ctx |-> 0]
  /\ budget = MaxOps
  /\ out = NoOut
  /\ rootStore = IdleStore
  /\ bgTasks = [taskId \in TaskIds |-> NoTask]
  /\ image = NewImage

Init == InitWith({1})

Next ==
  \/ \E d \in Dids : CreateAccountCall(1, d)
  \/ \E a \in AgentIds : \E r \in CallResults(agents[1][a].did) :
       CreateAccountReturn(1, a, r)
  \/ \E d \in Dids : LoginCall(1, d)
  \/ \E a \in AgentIds : \E r \in CallResults(agents[1][a].did) :
       LoginReturn(1, a, r)
  \/ ClearCurrentAccount(1)
  \/ Logout(1)
  \/ \E account \in KnownAccounts(1) \cup {state[1].currentAccount} :
       RemoveAccount(1, account)
  \/ \E partial \in Partials : UpdateCurrentAccount(1, partial)
  \/ \E account \in KnownAccounts(1) : InitSession(1, account)
  \/ \E account \in KnownAccounts(1) : SelectAccount(1, account)
  \/ ResumeSession(1, persisted.currentAccount)
  \/ ResumeSessionNone(1)
  \/ \E a \in AgentIds : \E r \in ResumeResults(agents[1][a].did) :
       InitSessionAttempt(1, a, r)
  \/ \E a \in AgentIds : \E sess \in Sessions(agents[1][a].did) :
       AgentUpdate(1, a, sess)
  \/ \E a \in AgentIds : AgentExpired(1, a)

Spec == Init /\ [][Next]_vars

\* Runs of createAccount, login, logout and removeAccount calls alone.
NextCalls ==
  \/ \E d \in Dids : CreateAccountCall(1, d)
  \/ \E a \in AgentIds : \E r \in CallResults(agents[1][a].did) :
       CreateAccountReturn(1, a, r)
  \/ \E d \in Dids : LoginCall(1, d)
  \/ \E a \in AgentIds : \E r \in CallResults(agents[1][a].did) :
       LoginReturn(1, a, r)
  \/ Logout(1)
  \/ \E account \in KnownAccounts(1) \cup {state[1].currentAccount} :
       RemoveAccount(1, account)

SpecCalls == Init /\ [][NextCalls]_vars

\* Runs of resolveName calls on the root store.
InitResolve == Init /\ persisted.accounts = <<>>

NextResolve ==
  \/ \E didOrHandle \in Names : ResolveNameCall(didOrHandle)
  \/ \E res \in LookupResults : ResolveNameReturn(res)

SpecResolve == InitResolve /\ [][NextResolve]_vars

\* Runs of the background fetch of the root store.  The notification fetch
\* settles in the end, and the scheduler times out in the end a task that
\* stays unfinished.
InitBgFetch == Init /\ persisted.accounts = <<>>

NextBgFetch ==
  \/ \E taskId \in TaskIds : \E hasSession \in BOOLEAN :
       OnBgFetch(taskId, hasSession)
  \/ \E taskId \in TaskIds : \E ok \in BOOLEAN :
       BgFetchNotificationsSettles(taskId, ok)
  \/ \E taskId \in TaskIds : OnBgFetchTimeout(taskId)

BgFetchProgress(taskId) ==
  \/ \E ok \in BOOLEAN : BgFetchNotificationsSettles(taskId, ok)
  \/ OnBgFetchTimeout(taskId)

SpecBgFetch ==
  /\ InitBgFetch /\ [][NextBgFetch]_vars
  /\ \A taskId \in TaskIds : WF_vars(BgFetchProgress(taskId))

\* Runs of edits of one ImageModel; the manipulations resolve in any order.
InitImage == Init /\ persisted.accounts = <<>>

NextImage ==
  \/ \E degrees \in Degrees : SetRotate(degrees)
  \/ FlipVertical
  \/ FlipHorizontal
  \/ ResetCompressed
  \/ \E i \in 1..MaxEdits : ManipulateReturns(i)

SpecImage == InitImage /\ [][NextImage]_vars

\* Two contexts on one store.  The backend answers every call with a
\* session; the users make a bounded number of calls.
InitSync ==
  /\ InitWith({1, 2})
  /\ persisted.accounts # <<>> /\ persisted.currentAccount = NoAccount

OkLogin(d) == [kind |-> "ok", sess |-> FixedSession(d), event |-> ""]
OkResume(d) == [kind |-> "ok", sess |-> FixedSession(d), event |-> "create"]

LoginReturns(c) ==
  \E a \in AgentIds : LoginReturn(c, a, OkLogin(agents[c][a].did))
InitSessionReturns(c) ==
  \E a \in AgentIds : InitSessionAttempt(c, a, OkResume(agents[c][a].did))

NextSync ==
  \E c \in Ctx :
    \/ \E d \in Dids : LoginCall(c, d)
    \/ LoginReturns(c)
    \/ Logout(c)
    \/ \E account \in KnownAccounts(c) :
         account.refreshJwt # 0 /\ SelectAccount(c, account)
    \/ InitSessionReturns(c)
    \/ OnUpdate(c)

\* The event loops keep running: a backend answer that has arrived, or a
\* notification that is pending, is handled in the end.
Reaction ==
  \E c \in Ctx : LoginReturns(c) \/ InitSessionReturns(c) \/ OnUpdate(c)

SpecSync == InitSync /\ [][NextSync]_vars /\ WF_vars(Reaction)

\* ------------------------------------------------------------------ claims
Rejected(o) == o.outcome = "rejected" \/ o.init = "rejected"
Establishing(o) == o.op \in {"createAccount", "login", "initSession"}
Unique(seq) == \A i, j \in 1..Len(seq) : seq[i].did = seq[j].did => i = j

\* C1: whenever currentAccount is set, accounts lists an account of the same
\* did.
C1_CurrentInAccounts ==
  currentAccount # NoAccount => currentAccount.did \in DidsOf(accounts)

\* C2, as claimed: after any run of createAccount, login, logout and
\* removeAccount calls the dids of accounts are distinct and the account
\* activated last is the first of accounts.
C2_LastActivatedIsHead ==
  /\ Unique(accounts)
  /\ activated[1] # 0 => accounts # <<>> /\ accounts[1].did = activated[1]

\* C2, amended: after any run of createAccount, login, logout and
\* removeAccount calls the dids of accounts are distinct, and the account
\* activated last is the first of accounts unless removeAccount has taken it
\* off the list since.
C2_LastActivatedIsHeadUnlessRemoved ==
  /\ Unique(accounts)
  /\ (activated[1] # 0 /\ activated[1] \in DidsOf(accounts))
        => accounts[1].did = activated[1]

\* A second account was established while another one was current, and
\* came first.
C2_Witness ==
  /\ out.op \in {"login", "createAccount"} /\ out.outcome = "resolved"
  /\ out.cur0 # 0 /\ out.cur0 # out.did
  /\ Len(accounts) = 2 /\ accounts[1].did = activated[1]

\* C3: a selectAccount call that rejects leaves currentAccount as it was
\* when the call began, and one that resolves leaves the requested account
\* current.
C3_SelectAllOrNothing ==
  (out.op = "initSession" /\ out.via = "select") =>
     /\ out.outcome = "rejected" => currentAccount.did = out.call0
     /\ out.outcome = "resolved" => currentAccount.did = out.did

\* C4: between operations the active client is the client of currentAccount,
\* and the public client when there is no currentAccount.
C4_AgentMatchesCurrent ==
  InFlight = {} =>
     IF currentAccount = NoAccount
       THEN getAgent = 0
       ELSE /\ getAgent # 0
            /\ agents[1][getAgent].sess.did = currentAccount.did

\* C5: createAccount, login and initSession put their client in place of the
\* active one only in the step in which their backend call has returned with
\* a session; the step that begins a call, and the step in which a call
\* fails, leave the active client alone.
C5_SwapOnlyAfterSession ==
  [][ /\ (getAgent' # getAgent /\ getAgent' # 0) =>
            /\ agents[1][getAgent'].st = "calling"
            /\ agents'[1][getAgent'].st = "live"
            /\ agents'[1][getAgent'].sess # NoSession
            /\ Establishing(out') /\ out'.loaded = 1
      /\ (Establishing(out') /\ (Rejected(out') \/ out'.outcome = "started"))
            => getAgent' = getAgent ]_vars

\* A login failed while an account was signed in: its client is still the
\* active one.
C5_Witness ==
  /\ out.op = "login" /\ out.outcome = "rejected"
  /\ getAgent # 0 /\ currentAccount # NoAccount
  /\ agents[1][getAgent].sess.did = currentAccount.did

\* C6: when the client of the current account reports "expired", then
\* currentAccount is unset, the account is still listed, with the handle and
\* the email the handler reconciled, and session-dropped was emitted once.
C6_ExpiredLogsOut ==
  (/\ out.op = "persistSession" /\ out.event = "expired"
   /\ out.outcome = "active" /\ out.cur0 = out.did) =>
     /\ currentAccount = NoAccount
     /\ out.did \in DidsOf(accounts)
     /\ Entry(out.did).handle = agents[1][getAgent].acct.handle
     /\ Entry(out.did).email = agents[1][getAgent].acct.email
     /\ out.dropped = 1

C6_Witness ==
  /\ out.op = "persistSession" /\ out.event = "expired"
  /\ out.outcome = "active" /\ out.cur0 = out.did
  /\ Len(accounts) = 2

\* C7: after an initSession that resolves, the tokens listed for the account
\* are the ones its client reported last.
C7_InitSessionTokens ==
  (out.op = "initSession" /\ out.init = "resolved") =>
     /\ getAgent # 0 /\ agents[1][getAgent].did = out.did
     /\ out.did \in DidsOf(accounts)
     /\ Tokens(Entry(out.did)) = Tokens(agents[1][getAgent].sess)

\* An initSession resolved with tokens newer than the stored ones it was
\* called with.
C7_Witness ==
  /\ out.op = "initSession" /\ out.init = "resolved" /\ getAgent # 0
  /\ agents[1][getAgent].acct.accessJwt = AccessOf(1)
  /\ agents[1][getAgent].sess.accessJwt = AccessOf(2)

\* C8: logout leaves currentAccount unset and every listed account without
\* tokens, and the listed dids and their order as they were.
C8_Logout ==
  [][ out'.op = "logout" =>
        /\ currentAccount' = NoAccount
        /\ \A i \in 1..Len(accounts') :
             accounts'[i].accessJwt = 0 /\ accounts'[i].refreshJwt = 0
        /\ DidSeq(accounts') = DidSeq(accounts) ]_vars

\* A logout with an account signed in and two accounts listed.
C8_Witness ==
  out.op = "logout" /\ out.cur0 # 0 /\ Len(accounts) = 2

\* C9: clearCurrentAccount leaves accounts as it was, tokens included; it
\* unsets currentAccount and makes the public client the active one.
C9_ClearCurrentAccountFrame ==
  [][ out'.op = "clearCurrentAccount" =>
        /\ accounts' = accounts
        /\ currentAccount' = NoAccount
        /\ getAgent' = 0
        /\ isInitialLoad' = isInitialLoad
        /\ isSwitchingAccounts' = isSwitchingAccounts
        /\ agents' = agents ]_vars

\* The account that was current is still listed with its tokens.
C9_Witness ==
  /\ out.op = "clearCurrentAccount" /\ out.cur0 # 0
  /\ out.cur0 \in DidsOf(accounts)
  /\ Entry(out.cur0).accessJwt # 0 /\ Entry(out.cur0).refreshJwt # 0

Quiet(c) ==
  /\ pending[c] = 0
  /\ \A a \in AgentIds : agents[c][a].st # "calling"

Converged ==
  /\ \A c \in Ctx : Quiet(c)
  /\ state[1].currentAccount.did = persisted.currentAccount.did
  /\ state[2].currentAccount.did = persisted.currentAccount.did

\* C10: two contexts on one store, each reacting to the other's writes:
\* once the users' calls have stopped the contexts come to hold the same
\* current did (or none), the persisted one, and nothing is left to write.
C10_EventuallyConsistent == <>[]Converged

\* Both contexts are signed in to the persisted account, and the listener
\* that ran last found nothing left to do.
C10_Witness ==
  /\ out.op = "onUpdate" /\ out.outcome = "same"
  /\ Converged /\ persisted.currentAccount # NoAccount
  /\ state[1].currentAccount # NoAccount
  /\ state[2].currentAccount # NoAccount

\* The step is the listener of context c handling one notification.
Listened(c) == pending'[c] = pending[c] - 1

\* The backend calls context c begins in the step.
NewCalls(c) ==
  {a \in AgentIds : agents'[c][a].st = "calling" /\ agents[c][a].st # "calling"}

\* C11: when the listener runs and the persisted currentAccount has a did
\* other than the one in memory (or memory has none), it begins initSession
\* for the persisted currentAccount exactly once; when the dids are equal it
\* begins no initSession.
C11_OnUpdateInitSession ==
  [][ \A c \in Ctx :
        (Listened(c) /\ persisted.currentAccount # NoAccount) =>
          IF persisted.currentAccount.did # state[c].currentAccount.did
            THEN /\ Cardinality(NewCalls(c)) = 1
                 /\ \A a \in NewCalls(c) :
                      /\ agents'[c][a].op = "initSession"
                      /\ agents'[c][a].acct = persisted.currentAccount
            ELSE NewCalls(c) = {} ]_vars

\* A context signed in to one account begins initSession for the other
\* one, which the store holds as current.
C11_Witness ==
  /\ out.op = "initSession" /\ out.via = "sync" /\ out.outcome = "started"
  /\ state[out.ctx].currentAccount # NoAccount
  /\ persisted.currentAccount # NoAccount
  /\ persisted.currentAccount.did # state[out.ctx].currentAccount.did

\* C12: when the listener runs and the store has no currentAccount, a
\* context that has one clears it (currentAccount unset, the public client
\* active, accounts as they were), and a context that has none changes
\* nothing.
C12_OnUpdateClear ==
  [][ \A c \in Ctx :
        (Listened(c) /\ persisted.currentAccount = NoAccount) =>
          IF state[c].currentAccount # NoAccount
            THEN /\ state'[c].currentAccount = NoAccount
                 /\ globalAgent'[c] = 0
                 /\ state'[c].accounts = state[c].accounts
                 /\ NewCalls(c) = {}
            ELSE /\ state'[c] = state[c]
                 /\ globalAgent'[c] = globalAgent[c]
                 /\ agents'[c] = agents[c]
                 /\ persisted' = persisted ]_vars

\* A context was signed out by the logout of the other one.
C12_Witness ==
  /\ out.op = "onUpdate" /\ out.outcome = "cleared"
  /\ state[out.ctx].currentAccount = NoAccount
  /\ globalAgent[out.ctx] = 0
  /\ persisted.currentAccount = NoAccount

\* What the persist effect writes of a SessionState.
Persistable(s) == [accounts |-> s.accounts, currentAccount |-> s.currentAccount]

\* C13: a batch of synchronous updates makes at most one write, and only
\* through the dirty flag; what is written is the state the batch ends in,
\* also when the batch made two updates, as logout does; the write takes the
\* flag down.
C13_OneWritePerBatch ==
  [][ /\ out'.writes \in {0, 1}
      /\ persisted' # persisted => out'.writes = 1
      /\ out'.writes = 1 =>
           /\ persisted' = Persistable(state'[1])
           /\ isDirty'[1] = FALSE
      /\ out'.op = "logout" => out'.writes = 1 ]_vars

\* A logout of a signed-in account wrote once: the store has no current
\* account and no tokens.
C13_Witness ==
  /\ out.op = "logout" /\ out.writes = 1 /\ out.cur0 # 0
  /\ persisted.currentAccount = NoAccount
  /\ persisted.accounts # <<>>
  /\ \A i \in 1..Len(persisted.accounts) :
       Tokens(persisted.accounts[i]) = <<0, 0>>

\* C14: after every step that changes accounts or currentAccount, whether an
\* operation or an event of the persistence callback, the stored session is
\* the {accounts, currentAccount} in memory.
C14_StoreFollowsState ==
  [][ (accounts' # accounts \/ currentAccount' # currentAccount) =>
        persisted' = Persistable(state'[1]) ]_vars

\* An event of the persistence callback changed the current account's
\* tokens, and the store has them.
C14_Witness ==
  /\ out.op = "persistSession" /\ out.event = "update" /\ out.writes = 1
  /\ currentAccount # NoAccount
  /\ currentAccount.accessJwt = AccessOf(2)
  /\ persisted = Persistable(state[1])

\* The step is the end of a resumeSession call.
ResumeSettles == out'.op = "initSession" /\ out'.via = "resume"
                 /\ out'.outcome \notin {"started", "retry"}

\* The resumeSession calls whose backend call is over with the step.
ResumeCallsEnded ==
  {a \in InFlight : agents[1][a].via = "resume" /\ agents'[1][a].st # "calling"}

\* C15: a resumeSession call sets isInitialLoad to false when it ends, and
\* it ends once, whether initSession succeeded, failed or there was no
\* account; before its end it does not touch the flag; and isInitialLoad,
\* once false, stays false.
C15_InitialLoadCleared ==
  [][ /\ ResumeSettles =>
           /\ isInitialLoad' = FALSE
           /\ out'.init \in {"resolved", "rejected", "none"}
           /\ Cardinality(ResumeCallsEnded) = IF out'.init = "none" THEN 0 ELSE 1
      /\ ResumeCallsEnded # {} => ResumeSettles
      /\ (out'.op = "initSession" /\ out'.via = "resume" /\ ~ResumeSettles)
           => isInitialLoad' = isInitialLoad
      /\ isInitialLoad = FALSE => isInitialLoad' = FALSE ]_vars

\* A resumeSession without an account ended the initial load.
C15_Witness ==
  /\ out.op = "initSession" /\ out.via = "resume" /\ out.init = "none"
  /\ isInitialLoad = FALSE /\ InFlight = {}

Established == Establishing(out') /\ out'.loaded = 1

\* C17: when a createAccount, login, initSession or selectAccount call
\* resolves, the established account is currentAccount and the first of
\* accounts, it is listed once, the other accounts listed before follow in
\* the order they had, and the active client is the client the call
\* constructed.
C17_EstablishedIsHead ==
  [][ Established =>
        /\ currentAccount' # NoAccount
        /\ currentAccount'.did = out'.did
        /\ accounts' # <<>> /\ accounts'[1] = currentAccount'
        /\ Cardinality({i \in 1..Len(accounts') :
                          accounts'[i].did = out'.did}) = 1
        /\ DidSeq(Tail(accounts')) =
             DidSeq(SelectSeq(accounts, LAMBDA x : x.did # out'.did))
        /\ getAgent' \in InFlight
        /\ agents[1][getAgent'].op = out'.op
        /\ agents[1][getAgent'].did = out'.did
        /\ agents'[1][getAgent'].st = "live" ]_vars

\* selectAccount of the second account resolved while the first one was
\* current: the second is current and first, the first follows.
C17_Witness ==
  /\ out.op = "initSession" /\ out.via = "select" /\ out.outcome = "resolved"
  /\ out.cur0 # 0 /\ out.cur0 # out.did
  /\ currentAccount.did = out.did
  /\ DidSeq(accounts) = <<out.did, out.cur0>>

\* C18: isSwitchingAccounts is true only while a selectAccount call is in
\* flight: it is false at the start, nothing but selectAccount raises it,
\* and once the last selectAccount in flight has resolved or rejected it is
\* false.
C18_SwitchingOnlyDuringSelect ==
  isSwitchingAccounts => \E a \in InFlight : agents[1][a].via = "select"

\* A selectAccount was rejected and the flag is down.
C18_Witness ==
  /\ out.op = "initSession" /\ out.via = "select" /\ out.outcome = "rejected"
  /\ isSwitchingAccounts = FALSE
  /\ \A a \in InFlight : agents[1][a].via # "select"

\* C19: for every event the handler is called with, expired is true
\* exactly when the event is neither "create" nor "update", session-dropped
\* is emitted exactly when expired is true, and the state is the result of
\* one upsert of the reconciled account with that flag: the account is
\* first, the others follow in their order, and currentAccount is that
\* account, or unset when expired.
C19_HandlerClassifies ==
  [][ out'.event # "" =>
        LET expired == out'.event \notin {"create", "update"} IN
        /\ out'.dropped = IF expired THEN 1 ELSE 0
        /\ out'.writes = 1
        /\ out'.init # "resolved" =>
             /\ accounts' # <<>> /\ accounts'[1].did = out'.did
             /\ currentAccount' = IF expired THEN NoAccount ELSE accounts'[1]
             /\ DidSeq(Tail(accounts')) =
                  DidSeq(SelectSeq(accounts, LAMBDA x : x.did # out'.did)) ]_vars

\* The handler was called with "create-failed": the event counts as an
\* expiry.
C19_Witness ==
  /\ out.event = "create-failed" /\ out.dropped = 1 /\ out.writes = 1
  /\ currentAccount = NoAccount
  /\ accounts # <<>> /\ accounts[1].did = out.did

\* The value the claim gives a reconciled field: the session's when the
\* session provides one, else the one of the account the handler captured.
Provided(x, prior) == IF x # 0 THEN x ELSE prior

\* C20: the account the handler forwards to the upsert has, for each of did,
\* handle, email, emailConfirmed, accessJwt and refreshJwt, the value of the
\* client's session when the session provides one, and else the value of
\* the account captured when the handler was created.
C20_ReconciledFieldByField ==
  (out.op = "persistSession" /\ out.outcome = "active") =>
     LET account == agents[1][getAgent].acct
         session == agents[1][getAgent].sess
         forwarded == accounts[1]
     IN /\ forwarded.did = Provided(session.did, account.did)
        /\ forwarded.handle = Provided(session.handle, account.handle)
        /\ forwarded.email = Provided(session.email, account.email)
        /\ forwarded.emailConfirmed =
             IF session # NoSession THEN session.emailConfirmed
             ELSE account.emailConfirmed
        /\ forwarded.accessJwt = Provided(session.accessJwt, account.accessJwt)
        /\ forwarded.refreshJwt =
             Provided(session.refreshJwt, account.refreshJwt)

\* C21: one initSession call makes at most 3 attempts of resumeSession,
\* all with the account it was called with; an attempt is followed by
\* another one only when it failed and fewer than 3 were made, so the first
\* success ends them; and the call that rejects without the client having
\* reported anything, as after 3 network errors, upserts nothing.
C21_AtMostThreeAttempts ==
  [][ /\ \A a \in AgentIds :
           (agents[1][a].st = "calling" /\ agents[1][a].op = "initSession") =>
             /\ agents[1][a].tries < MaxRetries
             /\ agents'[1][a].tries <= MaxRetries
             /\ agents'[1][a].st = "calling" =>
                  /\ agents'[1][a].acct = agents[1][a].acct
                  /\ agents'[1][a].tries # agents[1][a].tries =>
                       /\ agents'[1][a].tries = agents[1][a].tries + 1
                       /\ out'.outcome = "retry"
             /\ agents'[1][a].st = "live" =>
                  /\ agents'[1][a].tries = agents[1][a].tries + 1
                  /\ out'.init = "resolved"
      /\ \A a \in AgentIds :
           (agents[1][a].st = "live" /\ agents'[1][a].st = "live") =>
             agents'[1][a].tries = agents[1][a].tries
      /\ (out'.op = "initSession" /\ out'.init = "rejected"
          /\ out'.event = "") =>
             /\ accounts' = accounts
             /\ currentAccount' = currentAccount
             /\ getAgent' = getAgent ]_vars

\* The third attempt of an initSession failed like the two before it: the
\* call is rejected, and nothing was upserted.
C21_Witness ==
  /\ out.op = "initSession" /\ out.init = "rejected" /\ out.event = ""
  /\ out.tries = MaxRetries
  /\ currentAccount = NoAccount /\ InFlight = {}

\* C22: removeAccount(account) takes out of accounts exactly the entries
\* of account.did, the others stay as they are and in their order, and
\* currentAccount stays as it is when the account removed is not the
\* current one.
C22_RemoveAccountFrame ==
  [][ out'.op = "removeAccount" =>
        /\ accounts' = SelectSeq(accounts, LAMBDA x : x.did # out'.did)
        /\ currentAccount.did # out'.did => currentAccount' = currentAccount
        /\ getAgent' = getAgent ]_vars

\* The account that is not current was removed: the current one is all
\* that is listed.
C22_Witness ==
  /\ out.op = "removeAccount" /\ out.cur0 # 0 /\ out.cur0 # out.did
  /\ currentAccount.did = out.cur0
  /\ DidSeq(accounts) = <<out.cur0>>

\* C23: updateCurrentAccount changes nothing when there is no current
\* account; else it leaves did, service and tokens of the current account as
\* they are, and the patched record is currentAccount and the first of
\* accounts, listed once, the others following as they were.
C23_UpdateCurrentAccount ==
  [][ out'.op = "updateCurrentAccount" =>
        IF currentAccount = NoAccount
          THEN accounts' = accounts /\ currentAccount' = NoAccount
          ELSE /\ currentAccount'.did = currentAccount.did
               /\ currentAccount'.service = currentAccount.service
               /\ Tokens(currentAccount') = Tokens(currentAccount)
               /\ accounts' # <<>> /\ accounts'[1] = currentAccount'
               /\ Tail(accounts') =
                    SelectSeq(accounts,
                              LAMBDA x : x.did # currentAccount.did) ]_vars

\* The handle of the current account was patched: the record with the new
\* handle is current and first of two.
C23_Witness ==
  /\ out.op = "updateCurrentAccount" /\ out.cur0 # 0
  /\ currentAccount.did = out.cur0 /\ currentAccount.handle = 2
  /\ Len(accounts) = 2 /\ accounts[1] = currentAccount

\* The step is a resolveName call beginning.
ResolveNameBegins == rootStore'.calls = rootStore.calls + 1

\* C24: resolveName of the empty string throws at once without a lookup;
\* of a string that begins with "did:" it returns the string without a
\* lookup; of any other string it makes exactly one lookup, and returns the
\* did the lookup answered.
C24_ResolveNameValidates ==
  [][ LET x == rootStore'.didOrHandle
          isDid == /\ Len(x) >= 4
                   /\ x[1] = "d" /\ x[2] = "i" /\ x[3] = "d" /\ x[4] = ":"
      IN
      /\ ResolveNameBegins =>
           IF x = <<>>
             THEN /\ rootStore'.st = "threw"
                  /\ rootStore'.lookups = rootStore.lookups
           ELSE IF isDid
             THEN /\ rootStore'.st = "returned" /\ rootStore'.result = x
                  /\ rootStore'.lookups = rootStore.lookups
           ELSE /\ rootStore'.st = "awaiting"
                /\ rootStore'.lookups = rootStore.lookups + 1
      /\ ~ResolveNameBegins =>
           /\ rootStore'.lookups = rootStore.lookups
           /\ rootStore'.st = "returned" =>
                /\ rootStore.st \in {"awaiting", "returned"}
                /\ rootStore'.result = rootStore'.answer ]_vars

\* resolveName of the handle "did", which lacks the colon, made its lookup
\* and returned the did the lookup answered.
C24_Witness ==
  /\ rootStore.st = "returned" /\ rootStore.didOrHandle = <<"d", "i", "d">>
  /\ rootStore.result = Did2 /\ rootStore.answer = Did2
  /\ rootStore.lookups = rootStore.calls

\* The step recorded as o is a createAccount, login or initSession call
\* resolving.
Resolves(o) ==
  \/ o.op \in {"createAccount", "login"} /\ o.outcome = "resolved"
  \/ o.op = "initSession" /\ o.init = "resolved"

\* C25: session-loaded is emitted once in the step in which a createAccount,
\* login or initSession call resolves, with the active client and
\* currentAccount being those of the established account, and in no other
\* step; every call that leaves its backend call established does emit it.
C25_SessionLoadedOnce ==
  [][ /\ out'.loaded = IF Resolves(out') THEN 1 ELSE 0
      /\ out'.loaded = 1 =>
           /\ currentAccount'.did = out'.did
           /\ getAgent' # 0 /\ agents'[1][getAgent'].did = out'.did
           /\ activated'[1] = out'.did
      /\ \A a \in InFlight : agents'[1][a].st = "live" => out'.loaded = 1
      /\ out'.loaded = 1 =>
           Cardinality({a \in InFlight : agents'[1][a].st = "live"}) = 1
      /\ out'.loaded = 0 => activated' = activated ]_vars

\* A createAccount resolved and emitted session-loaded for its account.
C25_Witness ==
  /\ out.op = "createAccount" /\ out.outcome = "resolved" /\ out.loaded = 1
  /\ activated[1] = out.did /\ currentAccount.did = out.did
  /\ getAgent # 0 /\ agents[1][getAgent].did = out.did

\* C28: a createAccount or login call that rejects leaves accounts,
\* currentAccount, the rest of the session state and the active client as
\* they were, both in the step that starts it and in the step that rejects
\* it, writes nothing to the store and emits no session-loaded.
C28_RejectedCallChangesNothing ==
  [][ (/\ out'.op \in {"createAccount", "login"}
       /\ out'.outcome \in {"started", "rejected"})
      => /\ state'[1] = state[1]
         /\ getAgent' = getAgent
         /\ persisted' = persisted
         /\ activated' = activated
         /\ isDirty' = isDirty
         /\ out'.writes = 0 /\ out'.loaded = 0
         /\ out'.outcome = "rejected" =>
              \A a \in AgentIds : agents'[1][a].st # "live"
                                   \/ agents'[1][a] = agents[1][a] ]_vars

\* A createAccount call rejected while an account was signed in with its
\* client active, and that account is still signed in and stored.
C28_Witness ==
  /\ out.op = "createAccount" /\ out.outcome = "rejected"
  /\ currentAccount # NoAccount /\ getAgent # 0
  /\ agents[1][getAgent].did = currentAccount.did
  /\ persisted = Persistable(state[1])
  /\ out.writes = 0 /\ out.loaded = 0

\* C26: a persistence-callback event delivered by a client that was
\* established and is no longer the active client leaves currentAccount
\* designating whom it designated: it does not make its own account current
\* and does not unset the current account.
C26_StaleEventKeepsCurrent ==
  [][ (/\ out'.op = "persistSession"
       /\ out'.outcome = "stale" /\ out'.via = "live")
      => /\ (currentAccount' = NoAccount) = (currentAccount = NoAccount)
         /\ currentAccount # NoAccount =>
              currentAccount'.did = currentAccount.did ]_vars

\* C27: the did that removeAccount has just removed from accounts comes
\* back into accounts in the next step only if that step is a createAccount,
\* login or initSession resolving for that did.
C27_RemovedStaysRemoved ==
  [][ (/\ out.op = "removeAccount"
       /\ out.did \notin DidsOf(state[1].accounts)
       /\ out.did \in DidsOf(state'[1].accounts))
      => (Resolves(out') /\ out'.did = out.did) ]_vars

\* C29: when one of two overlapping selectAccount calls settles while the
\* other is still in flight, isSwitchingAccounts is still true.
C29_SwitchingWhileAnyInFlight ==
  [][ (\E a, b \in InFlight :
         /\ a # b
         /\ agents[1][a].via = "select" /\ agents[1][b].via = "select"
         /\ agents'[1][a].st # "calling"
         /\ agents'[1][b] = agents[1][b])
      => isSwitchingAccounts' ]_vars

\* C30: a did listed in the accounts of a context is still listed after
\* every step, whatever the operation, unless the step is removeAccount in
\* that context for that did.
C30_OnlyRemoveAccountRemoves ==
  [][ \A c \in Ctx : \A d \in DidsOf(state[c].accounts) :
        d \notin DidsOf(state'[c].accounts) =>
          (out'.op = "removeAccount" /\ out'.ctx = c /\ out'.did = d) ]_vars

\* The session of one of two listed accounts expired: nobody is signed in
\* and both accounts are still listed.
C30_Witness ==
  /\ out.op = "persistSession" /\ out.event = "expired"
  /\ out.did \in DidsOf(state[1].accounts)
  /\ currentAccount = NoAccount
  /\ Cardinality(DidsOf(state[1].accounts)) = 2

\* C31: every task passed to onBgFetch is finished exactly once:
\* BgScheduler.finish(taskId) is never called a second time for a task, and
\* it is called in the end for every task delivered.
C31_FinishedExactlyOnce ==
  /\ [](\A taskId \in TaskIds : bgTasks[taskId].finished <= 1)
  /\ \A taskId \in TaskIds :
       (bgTasks[taskId].st # "idle") ~> (bgTasks[taskId].finished >= 1)

\* C32: once every manipulation started by the edits has completed, the
\* compressed image is the one computed from the final rotate,
\* flipHorizontal and flipVertical.
C32_CompressedFromFinalAttributes ==
  (image.edits > 0 /\ image.pending = <<>>)
    => image.compressed = manipulateAsync(modifiers(image.attributes))

====
